---- MODULE Spec2Model ----
(***************************************************************************)
(* Model of gfx-memory's `Heaps` router (src/gfx-memory/src/heaps/mod.rs): *)
(* the registry of memory types and heaps, `allocate`, `allocate_from`,    *)
(* `free`, `clear`, `utilization` and the Drop of the router.              *)
(*                                                                         *)
(* `MemoryHeap` (heaps/heap.rs), `MemoryType` (heaps/memory_type.rs) and   *)
(* `MemoryUsage` (usage.rs) are used by mod.rs but their sources are not   *)
(* part of src/; they are modelled from spec.md (sections 4.1, 4.2, 6).    *)
(*                                                                         *)
(* `Size` is u64.  The model keeps the width as SizeBits, scaled down so   *)
(* that the values near the top of the range can be enumerated; sums are   *)
(* taken modulo SizeMod, as a release build of the crate computes them.    *)
(***************************************************************************)
EXTENDS Integers, Sequences, FiniteSets, Bags

\* ------------------------------------------------------------------ bounds
\* Width of `Size` in the model (64 in the program).
SizeBits == 5
\* At most this many blocks are held by the caller at once.
MaxBlocks == 2
\* A strategy charges the requested size, or up to this many bytes more.
MaxRound == 3

SizeMod == 2 ^ SizeBits
SizeMax == SizeMod - 1

\* ------------------------------------------------------- construction input
\* hal::memory::Properties flags used by the modelled devices.
Properties == {"DEVICE_LOCAL", "CPU_VISIBLE", "COHERENT"}

\* Arguments of Heaps::new: (properties, heap_index) per memory type, and the
\* heap sizes.  Types 1 and 2 share heap 0; type 0 is alone on heap 1.
DeviceA ==
    [types |-> << [properties |-> {"CPU_VISIBLE", "COHERENT"}, heap_index |-> 1],
                  [properties |-> {"DEVICE_LOCAL"}, heap_index |-> 0],
                  [properties |-> {"DEVICE_LOCAL", "CPU_VISIBLE"}, heap_index |-> 0] >>,
     heaps |-> << 6, 8 >>]

Devices == {DeviceA}

\* ---------------------------------------------------------- request inputs
\* The low three bits of `mask` (the device has three memory types).
Masks == 0 .. 7

\* A MemoryUsage is modelled by what the router observes of it: the
\* properties it requires, and the flags its fitness score rewards.
Usages ==
    [required : {{}, {"CPU_VISIBLE"}},
     liked    : {{}, {"DEVICE_LOCAL"}, {"CPU_VISIBLE", "COHERENT"}}]

Sizes == {1, 2, SizeMax}
Aligns == {1, 2, SizeMax}

VARIABLES
    types,     \* Heaps.types: Seq of [properties, heap_index]; type i is types[i+1]
    heaps,     \* Heaps.heaps: Seq of [size, used]; heap h is heaps[h+1]
    live,      \* bag of the MemoryBlocks held by the caller: [memory_index, size, charged]
    status,    \* "live", or "panicked" once a call has panicked
    last,      \* the call that has just returned, until the caller takes its result
    cleared,   \* whether Heaps::clear has been called
    leak_logged \* whether Drop has logged "Heaps still have .. types live on drop"

vars == << types, heaps, live, status, last, cleared, leak_logged >>

\* -------------------------------------------------------------- MemoryHeap
MemoryHeap_new(size) == [size |-> size, used |-> 0]

\* total_size - used_size, in Size arithmetic.
available(heap) == (heap.size - heap.used) % SizeMod

\* memory_heap.allocated(allocated, flavor.size()): charge `used` bytes.  The
\* second argument is the block size, kept for statistics only.
allocated(heap, used, effective) == [heap EXCEPT !.used = (@ + used) % SizeMod]

\* memory_heap.freed(freed, size): reclaim `used` bytes.
freed(heap, used, effective) == [heap EXCEPT !.used = (@ - used) % SizeMod]

\* ------------------------------------------------------------- MemoryUsage
properties_required(usage) == usage.required

memory_fitness(usage, properties) == Cardinality(properties \cap usage.liked)

\* ------------------------------------------------------------------- Heaps
\* The assert of Heaps::new.
new_ok(device) ==
    \A i \in 1 .. Len(device.types) : device.types[i].heap_index < Len(device.heaps)

new_types(device) == device.types

new_heaps(device) == [h \in 1 .. Len(device.heaps) |-> MemoryHeap_new(device.heaps[h])]

heap_of(ts, memory_index) == ts[memory_index + 1].heap_index

\* Variant: the bit tested is one position too high.
mask_bit_shifted(mask, index) == (mask \div (2 ^ (index + 1))) % 2 = 1

\* (mask & (1u32 << index)) != 0
mask_bit(mask, index) == (mask \div (2 ^ index)) % 2 = 1

\* Variant: the required properties are not looked at.
properties_unchecked(ts, index, usage) == TRUE

\* mt.properties().contains(usage.properties_required())
properties_ok(ts, index, usage) ==
    properties_required(usage) \subseteq ts[index + 1].properties

\* The indices `suitable_types` yields.
suitable_types(ts, mask, usage) ==
    {index \in 0 .. (Len(ts) - 1) : mask_bit(mask, index) /\ properties_ok(ts, index, usage)}

\* Variant: a heap with exactly size + align available passes.
capacity_filter_nonstrict(ts, hs, index, size, align) ==
    available(hs[heap_of(ts, index) + 1]) >= (size + align) % SizeMod

\* Variant: the test reads the total size of the heap, not what is left of it.
capacity_filter_total(ts, hs, index, size, align) ==
    hs[heap_of(ts, index) + 1].size > (size + align) % SizeMod

\* self.heaps[mt.heap_index()].available() > size + align
capacity_filter(ts, hs, index, size, align) ==
    available(hs[heap_of(ts, index) + 1]) > (size + align) % SizeMod

\* Variant: the least fit element is taken.
min_by_key(S, ts, usage) ==
    CHOOSE i \in S :
        \A j \in S :
            \/ memory_fitness(usage, ts[j + 1].properties) > memory_fitness(usage, ts[i + 1].properties)
            \/ /\ memory_fitness(usage, ts[j + 1].properties) = memory_fitness(usage, ts[i + 1].properties)
               /\ j <= i

\* Variant: of several maximal elements the first one is taken.
first_max_by_key(S, ts, usage) ==
    CHOOSE i \in S :
        \A j \in S :
            \/ memory_fitness(usage, ts[j + 1].properties) < memory_fitness(usage, ts[i + 1].properties)
            \/ /\ memory_fitness(usage, ts[j + 1].properties) = memory_fitness(usage, ts[i + 1].properties)
               /\ j >= i

\* Iterator::max_by_key over ascending indices: of several maximal elements
\* the last one is returned.
max_by_key(S, ts, usage) ==
    CHOOSE i \in S :
        \A j \in S :
            \/ memory_fitness(usage, ts[j + 1].properties) < memory_fitness(usage, ts[i + 1].properties)
            \/ /\ memory_fitness(usage, ts[j + 1].properties) = memory_fitness(usage, ts[i + 1].properties)
               /\ j <= i

\* Variant: the re-check is left out.
recheck_skipped(heap, size) == FALSE

\* memory_heap.available() < size
recheck_fails(heap, size) == available(heap) < size

\* No block: the `blk` field of a call record that carries none.
NoBlock == [memory_index |-> -1, size |-> 0, charged |-> 0]

\* The record of a call: its arguments, its result, the memory type it chose,
\* the bytes charged or reclaimed, the block returned or consumed, the heaps
\* as they were when it was made (pre) and, for a free that directly follows
\* the allocate of its block, the heaps before that allocate (pre_alloc);
\* the memory types when it was made (pre_types), the payload of a
\* NoSuitableMemory error (error) and what utilization returned (util).
NoCall ==
    [op |-> "none", result |-> "none", stage |-> "none", mask |-> 0,
     usage |-> [required |-> {}, liked |-> {}], size |-> 0, align |-> 0,
     memory_index |-> -1, allocated |-> 0, blk |-> NoBlock, pre |-> << >>,
     pre_alloc |-> << >>, pre_types |-> << >>, error |-> << >>, util |-> << >>]

\* MemoryBlock::memory_type
memory_type(block) == block.memory_index

\* An allocate call that returns Err: nothing but the call record changes.
AllocateFails(call, result, stage, memory_index) ==
    /\ last' = [call EXCEPT !.result = result, !.stage = stage,
                            !.memory_index = memory_index]
    /\ UNCHANGED << types, heaps, live, status, cleared, leak_logged >>

\* Variant: every suitable heap exhausted is reported as no suitable memory.
exhausted_as_unsuitable == "NoSuitableMemory"

\* ok_or_else(|| OutOfMemory::Device)?: the error when no suitable type has
\* the capacity.
exhausted_error == "AllocationError"

\* MemoryType::alloc: what it may report as allocated for `size` bytes: the
\* size itself, or the size rounded up; never more than Size can count.
Charges(heap, size) ==
    {c \in {size, size + MaxRound} : heap.used + c < SizeMod}

\* MemoryType::free: the bytes it reports freed are those the block charged.
memory_type_free(block) == block.charged

\* MemoryType::clear: panics if blocks of this memory type are still allocated.
memory_type_clear_panics(blocks, memory_index) ==
    \E b \in BagToSet(blocks) : b.memory_index = memory_index

\* Variant: the requested size is charged, not the bytes reported.
charge_requested(hs, heap_index, bytes, size) ==
    [hs EXCEPT ![heap_index + 1] = allocated(@, size, size)]

\* memory_heap.allocated(allocated, flavor.size()) on the heap of the type.
charge(hs, heap_index, bytes, size) ==
    [hs EXCEPT ![heap_index + 1] = allocated(@, bytes, size)]

\* Variant: the block size is reclaimed, not the bytes reported freed.
reclaim_size(hs, heap_index, bytes, size) ==
    [hs EXCEPT ![heap_index + 1] = freed(@, size, size)]

\* memory_heap.freed(freed, size) on the heap of the type.
reclaim(hs, heap_index, bytes, size) ==
    [hs EXCEPT ![heap_index + 1] = freed(@, bytes, size)]

\* Variant: the heap is charged before the strategy is asked, and the charge
\* stays when the strategy fails.
StrategyFails_charged(call, memory_index, size) ==
    /\ heaps' = charge(heaps, heap_of(types, memory_index), size, size)
    /\ last' = [call EXCEPT !.result = "AllocationError", !.stage = "strategy",
                            !.memory_index = memory_index]
    /\ UNCHANGED << types, live, status, cleared, leak_logged >>

\* memory_type.alloc(device, usage, size, align)? returning Err.
StrategyFails(call, memory_index, size) ==
    AllocateFails(call, "AllocationError", "strategy", memory_index)

\* HeapsError::NoSuitableMemory(mask, usage.properties_required())
no_suitable_memory(mask, usage) == << mask, properties_required(usage) >>

\* Variant: a request whose suitable types are all exhausted is answered as
\* if no type were suitable.
selection_capacity_first(ts, hs, mask, usage, size, align) ==
    LET eligible == {i \in suitable_types(ts, mask, usage) :
                        capacity_filter(ts, hs, i, size, align)}
    IN IF eligible = {}
       THEN [result |-> "NoSuitableMemory", stage |-> "suitable", memory_index |-> -1]
       ELSE [result |-> "Ok", stage |-> "chosen",
             memory_index |-> max_by_key(eligible, ts, usage)]

\* Variant: the emptiness of the candidates is tested once, after both
\* filters, and reported as exhaustion.
selection_exhausted_first(ts, hs, mask, usage, size, align) ==
    LET eligible == {i \in suitable_types(ts, mask, usage) :
                        capacity_filter(ts, hs, i, size, align)}
    IN IF eligible = {}
       THEN [result |-> exhausted_error, stage |-> "filter", memory_index |-> -1]
       ELSE [result |-> "Ok", stage |-> "chosen",
             memory_index |-> max_by_key(eligible, ts, usage)]

\* The first phase of Heaps::allocate, a function of the memory types, the
\* heaps and the request: the error it returns, or the memory type it picks.
selection(ts, hs, mask, usage, size, align) ==
    LET suitable == suitable_types(ts, mask, usage)
        eligible == {i \in suitable : capacity_filter(ts, hs, i, size, align)}
    IN IF suitable = {}
       THEN [result |-> "NoSuitableMemory", stage |-> "suitable", memory_index |-> -1]
       ELSE IF eligible = {}
       THEN [result |-> exhausted_error, stage |-> "filter", memory_index |-> -1]
       ELSE [result |-> "Ok", stage |-> "chosen",
             memory_index |-> max_by_key(eligible, ts, usage)]

allocate_from(call, memory_index, size, align) ==
    LET heap_index == heap_of(types, memory_index) IN
    IF recheck_fails(heaps[heap_index + 1], size)
    THEN AllocateFails(call, "AllocationError", "recheck", memory_index)
    ELSE \/ StrategyFails(call, memory_index, size)
         \/ /\ BagCardinality(live) < MaxBlocks
            /\ \E bytes \in Charges(heaps[heap_index + 1], size) :
                LET block == [memory_index |-> memory_index, size |-> size,
                              charged |-> bytes] IN
                /\ heaps' = charge(heaps, heap_index, bytes, size)
                /\ live' = live (+) SetToBag({block})
                /\ last' = [call EXCEPT !.result = "Ok", !.stage = "done",
                                        !.memory_index = memory_index,
                                        !.allocated = bytes, !.blk = block]
                /\ UNCHANGED << types, status, cleared, leak_logged >>

Allocate(mask, usage, size, align) ==
    /\ status = "live"
    /\ last.op = "none"
    /\ LET call == [NoCall EXCEPT !.op = "allocate", !.mask = mask, !.usage = usage,
                                  !.size = size, !.align = align, !.pre = heaps,
                                  !.pre_types = types]
           sel == selection(types, heaps, mask, usage, size, align)
       IN IF sel.stage = "suitable"
          THEN AllocateFails([call EXCEPT !.error = no_suitable_memory(mask, usage)],
                             sel.result, sel.stage, -1)
          ELSE IF sel.stage = "filter"
          THEN AllocateFails(call, sel.result, sel.stage, -1)
          ELSE allocate_from(call, sel.memory_index, size, align)

\* Heaps::free.  The caller may free the block an allocate has just returned
\* (the record then keeps the heaps as they were before that allocate).
Free(block) ==
    /\ status = "live"
    /\ BagIn(block, live)
    /\ \/ last.op = "none"
       \/ last.op = "allocate" /\ last.result = "Ok" /\ last.blk = block
    /\ LET memory_index == block.memory_index
           call == [NoCall EXCEPT !.op = "free", !.memory_index = memory_index,
                                  !.size = block.size, !.blk = block,
                                  !.pre = heaps, !.pre_alloc = last.pre,
                                  !.pre_types = types]
       IN IF memory_index >= Len(types)
          THEN \* self.types[memory_index as usize]: index out of bounds
               /\ status' = "panicked"
               /\ last' = [call EXCEPT !.result = "panic"]
               /\ UNCHANGED << types, heaps, live, cleared, leak_logged >>
          ELSE /\ heaps' = reclaim(heaps, heap_of(types, memory_index),
                                   memory_type_free(block), block.size)
               /\ live' = live (-) SetToBag({block})
               /\ last' = [call EXCEPT !.result = "Ok",
                                       !.allocated = memory_type_free(block)]
               /\ UNCHANGED << types, status, cleared, leak_logged >>

\* Variant: clear returns normally although blocks are still allocated.
Clear_no_panic ==
    /\ status = "live"
    /\ last.op = "none"
    /\ types' = << >>
    /\ last' = [NoCall EXCEPT !.op = "clear", !.result = "Ok", !.pre = heaps,
                              !.pre_types = types]
    /\ cleared' = TRUE
    /\ UNCHANGED << heaps, live, status, leak_logged >>

\* Variant: the memory types are cleared in place (iter_mut) and stay in the
\* collection.
Clear_keeps_types ==
    /\ status = "live"
    /\ last.op = "none"
    /\ types' = types
    /\ IF \E i \in 0 .. (Len(types) - 1) : memory_type_clear_panics(live, i)
       THEN /\ status' = "panicked"
            /\ last' = [NoCall EXCEPT !.op = "clear", !.result = "panic", !.pre = heaps,
                                      !.pre_types = types]
       ELSE /\ status' = status
            /\ last' = [NoCall EXCEPT !.op = "clear", !.result = "Ok", !.pre = heaps,
                                      !.pre_types = types]
    /\ cleared' = TRUE
    /\ UNCHANGED << heaps, live, leak_logged >>

\* Variant: only the first memory type is cleared; the others are dropped
\* without a call of their clear.
Clear_first_only ==
    /\ status = "live"
    /\ last.op = "none"
    /\ types' = << >>
    /\ IF Len(types) >= 1 /\ memory_type_clear_panics(live, 0)
       THEN /\ status' = "panicked"
            /\ last' = [NoCall EXCEPT !.op = "clear", !.result = "panic", !.pre = heaps,
                                      !.pre_types = types]
       ELSE /\ status' = status
            /\ last' = [NoCall EXCEPT !.op = "clear", !.result = "Ok", !.pre = heaps,
                                      !.pre_types = types]
    /\ cleared' = TRUE
    /\ UNCHANGED << heaps, live, leak_logged >>

\* Heaps::clear: drain(..) empties `types` whether or not a clear panics.
Clear ==
    /\ status = "live"
    /\ last.op = "none"
    /\ types' = << >>
    /\ IF \E i \in 0 .. (Len(types) - 1) : memory_type_clear_panics(live, i)
       THEN /\ status' = "panicked"
            /\ last' = [NoCall EXCEPT !.op = "clear", !.result = "panic", !.pre = heaps,
                                      !.pre_types = types]
       ELSE /\ status' = status
            /\ last' = [NoCall EXCEPT !.op = "clear", !.result = "Ok", !.pre = heaps,
                                      !.pre_types = types]
    /\ cleared' = TRUE
    /\ UNCHANGED << heaps, live, leak_logged >>

\* MemoryHeap::utilization: the snapshot (used, total) of a heap.
heap_utilization(heap) == [used |-> heap.used, total |-> heap.size]

\* MemoryType::utilization: the bytes charged by the live blocks of the type.
RECURSIVE type_used(_, _, _)
type_used(blocks, counts, memory_index) ==
    IF blocks = {} THEN 0
    ELSE LET b == CHOOSE x \in blocks : TRUE
         IN (IF b.memory_index = memory_index THEN b.charged * CopiesIn(b, counts) ELSE 0)
            + type_used(blocks \ {b}, counts, memory_index)

type_utilization(blocks, memory_index) ==
    [used |-> type_used(BagToSet(blocks), blocks, memory_index)]

\* What Heaps::utilization returns: an entry per heap and per memory type.
total_utilization(ts, hs, blocks) ==
    [heaps |-> [h \in 1 .. Len(hs) |-> heap_utilization(hs[h])],
     types |-> [i \in 1 .. Len(ts) |-> type_utilization(blocks, i - 1)]]

\* Variant: the memory types are drained while they are reported.
Utilization_draining ==
    /\ status = "live"
    /\ last.op = "none"
    /\ types' = << >>
    /\ last' = [NoCall EXCEPT !.op = "utilization", !.result = "Ok", !.pre = heaps,
                              !.pre_types = types,
                              !.util = total_utilization(types, heaps, live)]
    /\ UNCHANGED << heaps, live, status, cleared, leak_logged >>

\* Heaps::utilization
Utilization ==
    /\ status = "live"
    /\ last.op = "none"
    /\ last' = [NoCall EXCEPT !.op = "utilization", !.result = "Ok", !.pre = heaps,
                              !.pre_types = types,
                              !.util = total_utilization(types, heaps, live)]
    /\ UNCHANGED << types, heaps, live, status, cleared, leak_logged >>

\* Variant: Drop logs nothing.
Drop_silent ==
    /\ status = "panicked" \/ (status = "live" /\ last.op = "none")
    /\ status' = "dropped"
    /\ last' = [NoCall EXCEPT !.op = "drop", !.result = "Ok", !.pre = heaps,
                              !.pre_types = types]
    /\ UNCHANGED << types, heaps, live, cleared, leak_logged >>

\* Drop for Heaps: the router is discarded, by its owner or by the unwinding
\* of a panic; an error is logged if memory types are left.
Drop ==
    /\ status = "panicked" \/ (status = "live" /\ last.op = "none")
    /\ status' = "dropped"
    /\ leak_logged' = (types # << >>)
    /\ last' = [NoCall EXCEPT !.op = "drop", !.result = "Ok", !.pre = heaps,
                              !.pre_types = types]
    /\ UNCHANGED << types, heaps, live, cleared >>

\* The caller takes the result of the call that has returned.
Return ==
    /\ status = "live"
    /\ last.op # "none"
    /\ last' = NoCall
    /\ UNCHANGED << types, heaps, live, status, cleared, leak_logged >>

Init ==
    \E device \in Devices :
        /\ new_ok(device)
        /\ types = new_types(device)
        /\ heaps = new_heaps(device)
        /\ live = EmptyBag
        /\ status = "live"
        /\ last = NoCall
        /\ cleared = FALSE
        /\ leak_logged = FALSE

Next ==
    \/ \E mask \in Masks, usage \in Usages, size \in Sizes, align \in Aligns :
           Allocate(mask, usage, size, align)
    \/ \E block \in BagToSet(live) : Free(block)
    \/ Clear
    \/ Utilization
    \/ Drop
    \/ Return

Spec == Init /\ [][Next]_vars

TypeOK ==
    /\ status \in {"live", "panicked", "dropped"}
    /\ cleared \in BOOLEAN /\ leak_logged \in BOOLEAN
    /\ \A h \in 1 .. Len(heaps) : heaps[h].used \in 0 .. SizeMax
    /\ BagCardinality(live) <= MaxBlocks

\* ------------------------------------------------------------------ claims
HeapIds == 0 .. (Len(heaps) - 1)
TypeIds == 0 .. (Len(types) - 1)

\* The bytes charged by the blocks of `blocks` (distinct block values), each
\* counted as often as it is live.
RECURSIVE SumCharged(_)
SumCharged(blocks) ==
    IF blocks = {} THEN 0
    ELSE LET b == CHOOSE x \in blocks : TRUE
         IN b.charged * CopiesIn(b, live) + SumCharged(blocks \ {b})

\* The live blocks whose memory type is backed by heap h.
LiveOn(h) == {b \in BagToSet(live) : types[b.memory_index + 1].heap_index = h}

AllocateOk == last.op = "allocate" /\ last.result = "Ok"
AllocateErr == last.op = "allocate" /\ last.result # "Ok"
FreeOk == last.op = "free" /\ last.result = "Ok"

\* C1: in every reachable state every heap has 0 <= used <= size (its total).
\* The code does not keep this: the strategy may report more bytes than the
\* heap has left, and allocate_from charges them unchecked.
C1_UsedWithinTotal ==
    \A h \in HeapIds : 0 <= heaps[h + 1].used /\ heaps[h + 1].used <= heaps[h + 1].size

\* C2: budget conservation: while the memory types exist, the used bytes of
\* every heap are the sum of the bytes charged by the live blocks whose
\* memory type that heap backs.
C2_BudgetConservation ==
    types # << >> => \A h \in HeapIds : heaps[h + 1].used = SumCharged(LiveOn(h))

\* C2 witness: two live blocks of different memory types on one heap, one of
\* them charged more than its size.
C2_Witness ==
    /\ types # << >>
    /\ \E a \in BagToSet(live), b \in BagToSet(live) :
        /\ a.memory_index # b.memory_index
        /\ types[a.memory_index + 1].heap_index = types[b.memory_index + 1].heap_index
        /\ a.charged > a.size
        /\ heaps[types[a.memory_index + 1].heap_index + 1].used = a.charged + b.charged

\* C3: free exactness: a free takes exactly the bytes its block was charged
\* from the heap backing the block's memory type and leaves the other heaps
\* alone; a free directly after the allocate of its block leaves every heap
\* as it was before that allocate.
C3_FreeExactness ==
    FreeOk =>
        /\ \A h \in HeapIds :
            /\ heaps[h + 1].size = last.pre[h + 1].size
            /\ heaps[h + 1].used =
                   last.pre[h + 1].used
                   - (IF h = types[last.blk.memory_index + 1].heap_index
                      THEN last.blk.charged ELSE 0)
        /\ last.pre_alloc # << >> => heaps = last.pre_alloc

\* C3 witness: the only live block, charged more than its size, is freed
\* directly after its allocate.
C3_Witness ==
    /\ FreeOk
    /\ last.pre_alloc # << >>
    /\ live = EmptyBag
    /\ last.blk.charged > last.blk.size
    /\ \A h \in HeapIds : heaps[h + 1].used = 0

\* C4: a successful allocate changes the used bytes of the heap backing the
\* chosen memory type, by the bytes charged, and of no other heap; an allocate
\* that fails, at whichever stage, leaves every heap as it was.
C4_AllocateAtomic ==
    /\ AllocateOk =>
          \A h \in HeapIds :
            /\ heaps[h + 1].size = last.pre[h + 1].size
            /\ IF h = types[last.memory_index + 1].heap_index
               THEN /\ heaps[h + 1].used # last.pre[h + 1].used
                    /\ heaps[h + 1].used = last.pre[h + 1].used + last.allocated
               ELSE heaps[h + 1].used = last.pre[h + 1].used
    /\ AllocateErr => heaps = last.pre

\* C4 witness: the strategy fails on a router that already holds a block.
C4_Witness ==
    /\ AllocateErr
    /\ last.stage = "strategy"
    /\ live # EmptyBag
    /\ heaps = last.pre

\* The memory types the request of the recorded allocate matches: bit set in
\* the mask, properties containing those the usage requires.
Matching ==
    {i \in TypeIds :
        /\ (last.mask \div (2 ^ i)) % 2 = 1
        /\ last.usage.required \subseteq types[i + 1].properties}

\* Bytes left, when the recorded call was made, on the heap backing type i.
PreAvailable(i) == available(last.pre[types[i + 1].heap_index + 1])

\* The matching types whose heap passed the capacity test of the request.
PreEligible ==
    {i \in Matching : PreAvailable(i) > (last.size + last.align) % SizeMod}

Fitness(i) == memory_fitness(last.usage, types[i + 1].properties)

\* The eligible types of maximal fitness.
Fittest == {i \in PreEligible : \A j \in PreEligible : Fitness(j) <= Fitness(i)}

\* C5: allocate fails with NoSuitableMemory exactly when no memory type
\* matches the mask and the required properties; when some type matches and
\* the heap of every matching type has too little available (not more than
\* size + align as Size arithmetic computes it, or less than size), it fails
\* with AllocationError.
C5_ErrorKinds ==
    last.op = "allocate" =>
        /\ last.result = "NoSuitableMemory" <=> Matching = {}
        /\ (Matching # {} /\ \A i \in Matching :
                \/ PreAvailable(i) <= (last.size + last.align) % SizeMod
                \/ PreAvailable(i) < last.size)
              => last.result = "AllocationError"

\* C5 witness: types match the request and every one of them is on a heap
\* with too little available; the call has failed with AllocationError.
C5_Witness ==
    /\ last.op = "allocate"
    /\ Cardinality(Matching) >= 2
    /\ \A i \in Matching : PreAvailable(i) <= last.size + last.align
    /\ last.size + last.align < SizeMod
    /\ last.result = "AllocationError"

\* C6: the memory type of a successful allocate, which is the memory_type()
\* of the block returned, has its bit set in the mask.
C6_MaskRespect ==
    AllocateOk =>
        /\ (last.mask \div (2 ^ last.memory_index)) % 2 = 1
        /\ BagIn(last.blk, live)
        /\ memory_type(last.blk) = last.memory_index

\* C6 witness: a type with the required properties, capacity and a higher
\* fitness than the chosen one was left out because its mask bit is unset.
C6_Witness ==
    /\ AllocateOk
    /\ \E j \in TypeIds :
        /\ (last.mask \div (2 ^ j)) % 2 = 0
        /\ last.usage.required \subseteq types[j + 1].properties
        /\ PreAvailable(j) > last.size + last.align
        /\ Fitness(j) > Fitness(last.memory_index)

\* C7: the properties of the memory type of a successful allocate contain
\* every property the usage requires.
C7_PropertiesSuperset ==
    AllocateOk => last.usage.required \subseteq types[last.memory_index + 1].properties

\* C7 witness: a type with its mask bit set, capacity and a higher fitness
\* than the chosen one was left out because it lacks a required property.
C7_Witness ==
    /\ AllocateOk
    /\ last.usage.required # {}
    /\ \E j \in TypeIds :
        /\ (last.mask \div (2 ^ j)) % 2 = 1
        /\ ~(last.usage.required \subseteq types[j + 1].properties)
        /\ PreAvailable(j) > last.size + last.align
        /\ Fitness(j) > Fitness(last.memory_index)

\* C8: the memory type of a successful allocate is at least as fit as every
\* matching type whose heap had the capacity when the call was made.
C8_FitnessMaximal ==
    AllocateOk =>
        /\ last.memory_index \in PreEligible
        /\ \A j \in PreEligible : Fitness(j) <= Fitness(last.memory_index)

\* C8 witness: the fittest matching type was exhausted and skipped, and of
\* the two eligible types left the fitter one was chosen.
C8_Witness ==
    /\ AllocateOk
    /\ \E j \in Matching \ PreEligible : Fitness(j) > Fitness(last.memory_index)
    /\ \E k \in PreEligible : Fitness(k) < Fitness(last.memory_index)

\* C9 as claimed: of several eligible types of maximal fitness the one with
\* the lowest index is chosen.
C9_LowestIndexOnTie ==
    AllocateOk => \A j \in Fittest : last.memory_index <= j

\* C9 as amended: of several eligible types of maximal fitness the one with
\* the highest index is chosen (max_by_key returns the last maximum).
C9_HighestIndexOnTie ==
    AllocateOk => last.memory_index \in Fittest /\ \A j \in Fittest : j <= last.memory_index

\* C9 witness: two eligible types tie at the maximal fitness, above a third.
C9_Witness ==
    /\ AllocateOk
    /\ Cardinality(Fittest) >= 2
    /\ PreEligible # Fittest

C11_LeakDetection ==
    /\ (last.op = "clear" /\ live = EmptyBag) => (types = << >> /\ last.result = "Ok")
    /\ (status = "dropped" /\ cleared) => ~leak_logged
    /\ (status = "dropped" /\ ~cleared /\ Len(types) >= 1) => leak_logged
    /\ status # "dropped" => ~leak_logged

\* C11 witness: the router was cleared with no block live and then dropped.
C11_Witness ==
    /\ status = "dropped"
    /\ cleared
    /\ live = EmptyBag
    /\ types = << >>
    /\ ~leak_logged

C13_UtilizationPure ==
    last.op = "utilization" =>
        /\ heaps = last.pre
        /\ types = last.pre_types
        /\ DOMAIN last.util.heaps = 1 .. Len(heaps)
        /\ DOMAIN last.util.types = 1 .. Len(types)
        /\ \A h \in 1 .. Len(heaps) :
            /\ last.util.heaps[h].used = heaps[h].used
            /\ last.util.heaps[h].total = heaps[h].size

\* C13 witness: utilization was taken with blocks live on both heaps.
C13_Witness ==
    /\ last.op = "utilization"
    /\ Len(last.util.types) = 3
    /\ \A h \in 1 .. Len(heaps) : last.util.heaps[h].used > 0

\* C13 second case reached as well: utilization after clear has no type entry.
C13_WitnessCleared ==
    /\ last.op = "utilization"
    /\ cleared
    /\ Len(last.util.types) = 0
    /\ Len(last.util.heaps) = 2

\* The strategy of the chosen memory type was called by the recorded allocate.
StrategyCalled == last.op = "allocate" /\ last.stage \in {"strategy", "done"}

\* C14: the strategy is called, and a heap charged, only when the heap of
\* the chosen memory type had available() >= size; when size + align wraps
\* and lets through a type whose heap has less than size available, allocate
\* returns AllocationError from the re-check and charges nothing.
C14_SafetyGate ==
    /\ StrategyCalled => PreAvailable(last.memory_index) >= last.size
    /\ (last.op = "allocate" /\ heaps # last.pre) => last.stage = "done"
    /\ (last.op = "allocate" /\ last.memory_index >= 0
          /\ PreAvailable(last.memory_index) < last.size)
        => (last.result = "AllocationError" /\ last.stage = "recheck" /\ heaps = last.pre)

\* C14 as first stated: the safety gate, and whenever size + align wraps in
\* the first-phase filter the allocate returns AllocationError without a call
\* of the strategy. Refuted by size = 1, align = SizeMax on a fresh router:
\* the sum wraps to 0, the heap has more than 0 and at least 1 available, and
\* the strategy is called.
C14_WrapAlwaysFails ==
    /\ StrategyCalled => PreAvailable(last.memory_index) >= last.size
    /\ (last.op = "allocate" /\ heaps # last.pre) => last.stage = "done"
    /\ (last.op = "allocate" /\ Matching # {} /\ last.size + last.align >= SizeMod)
        => (last.result = "AllocationError" /\ ~StrategyCalled /\ heaps = last.pre)

\* C14 witness: size + align wrapped, the first-phase filter let a type
\* through whose heap has less than size available, and the re-check failed.
C14_Witness ==
    /\ last.op = "allocate"
    /\ last.size + last.align >= SizeMod
    /\ last.memory_index >= 0
    /\ PreAvailable(last.memory_index) > (last.size + last.align) % SizeMod
    /\ PreAvailable(last.memory_index) < last.size
    /\ last.result = "AllocationError"
    /\ last.stage = "recheck"

\* C14 second case reached as well: size + align wrapped and the request was
\* served, the heap having at least size available.
C14_WitnessWrapServed ==
    /\ last.op = "allocate"
    /\ last.size + last.align >= SizeMod
    /\ last.result = "Ok"
    /\ PreAvailable(last.memory_index) >= last.size
    /\ \A h \in 1 .. Len(last.pre) : last.pre[h].used = 0

\* size + align of the recorded allocate, as Size arithmetic computes it.
SizePlusAlign == (last.size + last.align) % SizeMod

\* C15: strict capacity threshold: a memory type is chosen only if its heap
\* had strictly more than size + align available; if the heap of every
\* matching type has at most size + align available, allocate fails with
\* AllocationError in the first phase: no strategy is called, nothing charged.
C15_StrictThreshold ==
    last.op = "allocate" =>
        /\ last.memory_index >= 0 => PreAvailable(last.memory_index) > SizePlusAlign
        /\ (Matching # {} /\ \A i \in Matching : PreAvailable(i) <= SizePlusAlign)
              => /\ last.result = "AllocationError"
                 /\ last.stage = "filter"
                 /\ heaps = last.pre

\* C15 witness: a matching type's heap has exactly size + align available,
\* enough for the request itself, and the allocate failed in the first phase.
C15_Witness ==
    /\ last.op = "allocate"
    /\ last.size + last.align < SizeMod
    /\ \A i \in Matching : PreAvailable(i) <= last.size + last.align
    /\ \E i \in Matching : PreAvailable(i) = last.size + last.align
    /\ last.result = "AllocationError"
    /\ last.stage = "filter"

\* Other loads of the heaps of the recorded call: one heap with any number
\* of its bytes in use and the others as recorded, every heap empty, and
\* every heap full.
OtherLoads ==
    UNION {{[last.pre EXCEPT ![h].used = u] : u \in 0 .. last.pre[h].size} :
              h \in 1 .. Len(last.pre)} \cup
    {[h \in 1 .. Len(last.pre) |-> [last.pre[h] EXCEPT !.used = 0]],
     [h \in 1 .. Len(last.pre) |-> [last.pre[h] EXCEPT !.used = last.pre[h].size]]}

\* C16: NoSuitableMemory does not depend on the load: the recorded allocate
\* failed with NoSuitableMemory exactly if the same request on the same
\* memory types does so under the other loads of the heaps; and the error holds
\* the mask and the required properties of the request.
C16_NoSuitableLoadIndependent ==
    last.op = "allocate" =>
        /\ \A hs \in OtherLoads :
              (selection(last.pre_types, hs, last.mask, last.usage, last.size,
                         last.align).result = "NoSuitableMemory")
              <=> (last.result = "NoSuitableMemory")
        /\ last.result = "NoSuitableMemory"
              => last.error = << last.mask, last.usage.required >>
        /\ last.result # "NoSuitableMemory" => last.error = << >>

\* C16 witness: a request with mask bits set failed with NoSuitableMemory on
\* a router whose heaps are both in use.
C16_Witness ==
    /\ last.op = "allocate"
    /\ last.result = "NoSuitableMemory"
    /\ last.mask # 0
    /\ last.pre_types # << >>
    /\ \A h \in 1 .. Len(last.pre) : last.pre[h].used > 0
    /\ last.error = << last.mask, {"CPU_VISIBLE"} >>

\* C16 second case reached as well: every suitable heap is exhausted under
\* the recorded load, and the error is not NoSuitableMemory.
C16_WitnessExhausted ==
    /\ last.op = "allocate"
    /\ last.stage = "filter"
    /\ last.result = "AllocationError"
    /\ \E hs \in OtherLoads :
          selection(last.pre_types, hs, last.mask, last.usage, last.size,
                    last.align).result = "Ok"

\* C17: the number of heaps is the constructed one in every state; the
\* number of memory types is the constructed one until clear is called and 0
\* afterwards; no call changes the number of heaps, and allocate, free and
\* utilization do not change the number of memory types.
C17_CollectionLengths ==
    /\ \E device \in Devices :
          /\ Len(heaps) = Len(new_heaps(device))
          /\ Len(types) = IF cleared THEN 0 ELSE Len(new_types(device))
    /\ last.op # "none" => Len(heaps) = Len(last.pre)
    /\ last.op \in {"allocate", "free", "utilization"}
          => Len(types) = Len(last.pre_types)

\* C17 witness: an allocate has returned on a cleared router: no memory
\* type is left and the heaps are all there.
C17_Witness ==
    /\ cleared
    /\ last.op = "allocate"
    /\ types = << >>
    /\ Len(heaps) = 2

\* C17 second case reached as well: a free has returned before any clear,
\* with every memory type in place.
C17_WitnessBeforeClear ==
    /\ ~cleared
    /\ last.op = "free"
    /\ Len(types) = 3
    /\ Len(heaps) = 2

\* C18: when size + align does not overflow, an allocate never fails at the
\* re-check of allocate_from: a capacity failure comes from the first-phase
\* filter or from the strategy.
C18_RecheckRedundant ==
    (last.op = "allocate" /\ last.size + last.align < SizeMod) =>
        /\ last.stage # "recheck"
        /\ last.result = "AllocationError" => last.stage \in {"filter", "strategy"}

\* C18 witness: without overflow of size + align, one allocate has passed
\* the re-check and reached the strategy.
C18_Witness ==
    /\ last.op = "allocate"
    /\ last.size + last.align < SizeMod
    /\ StrategyCalled
    /\ PreAvailable(last.memory_index) > last.size + last.align

\* C19: after clear, every allocate fails with NoSuitableMemory and leaves
\* the heaps as they were.
C19_AllocateAfterClear ==
    (cleared /\ last.op = "allocate") =>
        /\ last.result = "NoSuitableMemory"
        /\ last.stage = "suitable"
        /\ heaps = last.pre
        /\ live = EmptyBag

\* C19 witness: after clear, a request that every memory type of the
\* constructed router would have served (full mask, nothing required, a
\* size far below the free budget) has failed with NoSuitableMemory.
C19_Witness ==
    /\ cleared
    /\ last.op = "allocate"
    /\ last.mask = 7
    /\ last.usage.required = {}
    /\ last.size = 1
    /\ last.result = "NoSuitableMemory"
    /\ \E device \in Devices :
          selection(new_types(device), last.pre, last.mask, last.usage, last.size,
                    last.align).result = "Ok"

====
